---- MODULE Spec2Model ----
(***************************************************************************)
(* Payment-reminder scheduler of the law-firm portal:                      *)
(* CollectionService (services/reportsService.ts) and the EmailService it  *)
(* dispatches through (services/emailService.ts).                          *)
(*                                                                         *)
(* Time is counted in ticks, TicksPerDay ticks to a day, so that the       *)
(* time of day of `new Date()` and the Math.ceil of the day difference are *)
(* both represented.  A due date is a date-only string and parses to the   *)
(* midnight that starts its day.                                           *)
(***************************************************************************)
EXTENDS Integers, Sequences, FiniteSets, TLC

\* ------------------------------------------------------------------ bounds
TicksPerDay == 2
\* last day the clock of the processing specification reaches
MaxDay == 4
\* last day the planner specification draws `today` from
PlannerMaxDay == 50
\* largest maxReminders the planner specification draws
MaxMaxReminders == 6
\* processing cycles started in one behaviour
MaxCycles == 2
\* emailService.sendEmail calls of the hook and of direct clients
MaxEmails == 3
\* paymentService.processPayment calls of the payments hook
MaxPayments == 3
\* refreshStatus, requestPermission and unsubscribe calls of the push hook
MaxPushCalls == 3

\* ---------------------------------------------------------------- helpers
Min(a, b) == IF a <= b THEN a ELSE b
Max(a, b) == IF a >= b THEN a ELSE b

\* Math.ceil(n / d) for an integer n and d > 0
CeilDiv(n, d) == -((-n) \div d)

Range(s) == {s[k] : k \in DOMAIN s}

\* Array.prototype.slice(0, end): a negative end counts from the back
SliceTo(s, end) ==
  IF end >= 0 THEN SubSeq(s, 1, Min(Len(s), end))
              ELSE SubSeq(s, 1, Max(Len(s) + end, 0))

\* ------------------------------------------------------------------- data
ReminderTypes == {"due_soon", "overdue_1", "overdue_7", "overdue_14",
                  "overdue_30", "final_warning"}

\* EmailTemplateType, the keys of EMAIL_TEMPLATES
EMAIL_TEMPLATES == {"welcome", "invoice_created", "invoice_paid",
                    "invoice_overdue", "case_update", "new_message",
                    "hearing_reminder", "document_available",
                    "payment_reminder"}

DEFAULT_CONFIG ==
  [daysBeforeDue |-> <<3, 1>>,
   daysAfterDue  |-> <<1, 7, 14, 30>>,
   enableEmail   |-> TRUE,
   enablePush    |-> TRUE,
   maxReminders  |-> 5]

\* InvoiceReminderData: the id and the day of the (date-only) dueDate
InvoiceA == [invoiceId |-> "A", dueDay |-> 5]
InvoiceB == [invoiceId |-> "B", dueDay |-> 1]
Invoices == {InvoiceA, InvoiceB}
InvoiceIds == {inv.invoiceId : inv \in Invoices}

\* a due date that does not parse: new Date(dueDate) is an Invalid Date,
\* whose getTime() is NaN
NaN == -1
\* an invoice with such a due date
MalformedInvoice == [invoiceId |-> "X", dueDay |-> NaN]
InvalidDate(invoice) == invoice.dueDay = NaN

\* new Date(invoice.dueDate).getTime()
DueTime(invoice) == invoice.dueDay * TicksPerDay

\* sentAt of a reminder that was not sent (undefined)
NoDate == -1

\* the processing cycles that may be in flight (processPendingReminders is
\* async: a second call can start while the first awaits)
Procs == {"c1", "c2"}

\* (invoice, tier) keys of the dispatch history; the channel is e-mail
Keys == InvoiceIds \X ReminderTypes

VARIABLES
  now,         \* the clock: what new Date() / Date.now() returns
  config,      \* CollectionService.config
  isEnabled,   \* EmailService.isEnabled
  remindersMap,\* CollectionService.reminders: ids of the stored reminders
  planIn,      \* inputs of the last direct calculateReminders call:
               \* the invoice, and the clock and configuration it read
  planOut,     \* list that call returned (both are forgotten once the
               \* clock or the configuration has changed)
  \* one processPendingReminders call (cycle) per element of Procs
  pc,          \* "idle", "loop", "awaitEmail", "awaitSend", "done"
  batch,       \* its argument `invoices`
  idx,         \* index of the invoice of the outer loop (0: none yet)
  reminders,   \* `reminders` of the outer loop body (objects, mutable)
  pos,         \* index of the reminder of the inner loop
  sent,        \* its counter `sent`
  failed,      \* its counter `failed`
  emailResult, \* success of the EmailResponse sendReminder awaits
  \* history (not program state)
  cycles,      \* cycles started so far
  okCalls,     \* per key: sendEmail calls that returned success = true
  failCalls,   \* per key: sendEmail calls that returned success = false
  marked,      \* per key: times a reminder's status was set to 'sent'
  acked,       \* per cycle: positions of `reminders` whose sendEmail succeeded
  ackCount,    \* per cycle: sendEmail calls that returned success = true
  attempted,   \* per cycle: keys sendReminder was called for
  failedBefore,\* per cycle: keys with a failed sendEmail when it started
  steady,      \* per cycle: clock and config unchanged since it started
  pushCalls,   \* push notifications sent for reminders (sendReminder has
               \* no push branch: the count never moves)
  \* useEmailNotifications (one mounted hook) and the calls of its
  \* sendEmail / sendTestEmail that can be in flight together
  preferences, \* its state `preferences`
  isSending,   \* its state `isSending`
  lastSentEmail,\* its state `lastSentEmail`: "null", "success", "failure"
  emailError,  \* its state `error`
  mailPc,      \* per call: "idle", or the function awaiting the service
  mailResult,  \* per call: the value the last call returned ("none": none)
  emailCalls,  \* emailService.sendEmail calls made by hook and clients
  serviceLog,  \* the last of them: caller, payload, switch and response
  \* usePayments (one mounted hook), PaymentService and the processPayment
  \* calls that can be in flight together
  paymentState,\* its state `paymentState`
  lastPayment, \* its state `lastPayment`: "null" or the status of the result
  paymentError,\* its state `error`
  isTestMode,  \* PaymentService.isTestMode
  payPc,       \* per call: "idle", or the service function it awaits
  payResult,   \* per call: the result the last call returned ("none": none)
  payCalls,    \* paymentService.processPayment calls made so far
  \* the browser, PushService and usePushNotifications (one mounted hook)
  supported,   \* Notification, serviceWorker and PushManager exist
  notificationPermission, \* Notification.permission
  pushSubscribed,    \* the PushManager holds a subscription
  localSubscription, \* localStorage holds 'push_subscription'
  registration,      \* PushService.registration is set
  svcSubscription,   \* PushService.subscription is set
  isSupported, \* the hook's state `isSupported`
  permission,  \* its state `permission`
  isSubscribed,\* its state `isSubscribed`
  isLoading,   \* its state `isLoading`
  pushError,   \* its state `error`
  subscription,\* its state `subscription`: "null" or "data"
  pushPc,      \* per operation of the hook: "idle", or what it awaits
  pushResult,  \* per operation: what its last call returned
  hookCalls    \* calls of the hook's operations made so far

svcVars == <<now, config, isEnabled, remindersMap>>
planVars == <<planIn, planOut>>
cycleVars == <<pc, batch, idx, reminders, pos, sent, failed, emailResult>>
histVars == <<cycles, okCalls, failCalls, marked, acked, ackCount,
              attempted, failedBefore, steady, pushCalls>>
vars == <<now, config, isEnabled, remindersMap, planIn, planOut,
          pc, batch, idx, reminders, pos, sent, failed, emailResult,
          cycles, okCalls, failCalls, marked, acked, ackCount,
          attempted, failedBefore, steady, pushCalls,
          preferences, isSending, lastSentEmail, emailError, mailPc,
          mailResult, emailCalls, serviceLog,
          paymentState, lastPayment, paymentError, isTestMode, payPc,
          payResult, payCalls,
          supported, notificationPermission, pushSubscribed,
          localSubscription, registration, svcSubscription, isSupported,
          permission, isSubscribed, isLoading, pushError, subscription,
          pushPc, pushResult, hookCalls>>

mailVars == <<preferences, isSending, lastSentEmail, emailError, mailPc,
              mailResult, emailCalls, serviceLog>>
payVars == <<paymentState, lastPayment, paymentError, isTestMode, payPc,
             payResult, payCalls>>
browserVars == <<supported, notificationPermission, pushSubscribed,
                 localSubscription>>
pushVars == <<browserVars, registration, svcSubscription, isSupported,
              permission, isSubscribed, isLoading, pushError, subscription,
              pushPc, pushResult, hookCalls>>
uiVars == <<mailVars, payVars, pushVars>>
\* everything but the switch of the EmailService and the hooks
coreVars == <<now, config, remindersMap, planVars, cycleVars, histVars>>
nonPushVars == <<isEnabled, coreVars, mailVars, payVars>>

NoInvoice == [invoiceId |-> "none", dueDay |-> 0]
\* no direct call was made yet
NoCall == [invoice |-> NoInvoice, today |-> -1, config |-> DEFAULT_CONFIG]

\* ---------------------------------------------------------------- planner
\* daysUntilDue of calculateReminders
DaysUntilDue(invoice) == CeilDiv(DueTime(invoice) - now, TicksPerDay)

\* faulty variant of BeforeReminder: scheduled from the midnight of the due date
\* instead of from the time of the call
BeforeReminderFromDueDate(invoice, days) ==
  LET daysUntilDue == DaysUntilDue(invoice) IN
  [kind         |-> "before",
   days         |-> days,
   invoiceId    |-> invoice.invoiceId,
   type         |-> "due_soon",
   scheduledFor |-> DueTime(invoice) - days * TicksPerDay,
   status       |-> "pending",
   sentAt       |-> NoDate,
   template     |-> IF daysUntilDue <= 1 THEN "payment_reminder_urgent"
                                         ELSE "payment_reminder"]

\* the reminder pushed by the before-due loop for offset `days`
BeforeReminder(invoice, days) ==
  LET daysUntilDue == DaysUntilDue(invoice) IN
  [kind         |-> "before",
   days         |-> days,
   invoiceId    |-> invoice.invoiceId,
   type         |-> "due_soon",
   scheduledFor |-> now + (daysUntilDue - days) * TicksPerDay,
   status       |-> "pending",
   sentAt       |-> NoDate,
   template     |-> IF daysUntilDue <= 1 THEN "payment_reminder_urgent"
                                         ELSE "payment_reminder"]

\* faulty variant of OverdueType: strict thresholds
OverdueTypeStrict(days) ==
  IF days > 30 THEN "overdue_30"
  ELSE IF days > 14 THEN "overdue_14"
  ELSE IF days > 7 THEN "overdue_7"
  ELSE "overdue_1"

\* the type the after-due loop derives from the offset
OverdueType(days) ==
  IF days >= 30 THEN "overdue_30"
  ELSE IF days >= 14 THEN "overdue_14"
  ELSE IF days >= 7 THEN "overdue_7"
  ELSE "overdue_1"

\* faulty variant of AfterReminder: scheduled from the time of the call
\* instead of from the due date
AfterReminderFromToday(invoice, days) ==
  [kind         |-> "after",
   days         |-> days,
   invoiceId    |-> invoice.invoiceId,
   type         |-> OverdueType(days),
   scheduledFor |-> now + days * TicksPerDay,
   status       |-> "pending",
   sentAt       |-> NoDate,
   template     |-> IF days >= 30 THEN "final_warning" ELSE "invoice_overdue"]

\* the reminder pushed by the after-due loop for offset `days`
AfterReminder(invoice, days) ==
  [kind         |-> "after",
   days         |-> days,
   invoiceId    |-> invoice.invoiceId,
   type         |-> OverdueType(days),
   scheduledFor |-> DueTime(invoice) + days * TicksPerDay,
   status       |-> "pending",
   sentAt       |-> NoDate,
   template     |-> IF days >= 30 THEN "final_warning" ELSE "invoice_overdue"]

\* the before-due loop over the first n offsets (every comparison with a
\* NaN daysUntilDue is false)
RECURSIVE BeforeLoop(_, _, _)
BeforeLoop(invoice, offsets, n) ==
  IF n = 0 THEN <<>>
  ELSE LET rest == BeforeLoop(invoice, offsets, n - 1)
           days == offsets[n]
       IN IF ~InvalidDate(invoice) /\ DaysUntilDue(invoice) >= days
            THEN Append(rest, BeforeReminder(invoice, days))
            ELSE rest

\* the after-due loop over the first n offsets
RECURSIVE AfterLoop(_, _, _)
AfterLoop(invoice, offsets, n) ==
  IF n = 0 THEN <<>>
  ELSE LET rest == AfterLoop(invoice, offsets, n - 1)
           days == offsets[n]
       IN IF ~InvalidDate(invoice) /\ DaysUntilDue(invoice) < -days
            THEN Append(rest, AfterReminder(invoice, days))
            ELSE rest

\* faulty variant of calculateReminders: the list is not cut to maxReminders
calculateRemindersUncut(invoice) ==
  BeforeLoop(invoice, config.daysBeforeDue, Len(config.daysBeforeDue))
    \o AfterLoop(invoice, config.daysAfterDue, Len(config.daysAfterDue))

\* faulty variant of calculateReminders: an event whose key was marked sent before
\* comes back as sent
calculateRemindersRemembering(invoice) ==
  LET list == SliceTo(calculateRemindersUncut(invoice), config.maxReminders)
  IN [k \in DOMAIN list |->
        IF marked[<<list[k].invoiceId, list[k].type>>] > 0
          THEN [list[k] EXCEPT !.status = "sent"]
          ELSE list[k]]

\* CollectionService.calculateReminders
calculateReminders(invoice) ==
  SliceTo(BeforeLoop(invoice, config.daysBeforeDue, Len(config.daysBeforeDue))
            \o AfterLoop(invoice, config.daysAfterDue, Len(config.daysAfterDue)),
          config.maxReminders)

\* -------------------------------------------------------------- processor
\* every cycle idle, the history empty
InitCycles ==
  /\ remindersMap = {}
  /\ pc = [p \in Procs |-> "idle"]
  /\ batch = [p \in Procs |-> <<>>]
  /\ idx = [p \in Procs |-> 0]
  /\ reminders = [p \in Procs |-> <<>>]
  /\ pos = [p \in Procs |-> 1]
  /\ sent = [p \in Procs |-> 0]
  /\ failed = [p \in Procs |-> 0]
  /\ emailResult = [p \in Procs |-> "none"]
  /\ cycles = 0
  /\ okCalls = [k \in Keys |-> 0]
  /\ failCalls = [k \in Keys |-> 0]
  /\ marked = [k \in Keys |-> 0]
  /\ acked = [p \in Procs |-> {}]
  /\ ackCount = [p \in Procs |-> 0]
  /\ attempted = [p \in Procs |-> {}]
  /\ failedBefore = [p \in Procs |-> {}]
  /\ steady = [p \in Procs |-> TRUE]
  /\ pushCalls = 0

\* JavaScript runs one callback at a time: while a cycle executes
\* synchronous code, or hands its result to its caller, nothing else runs
Running == \E p \in Procs : pc[p] \in {"loop", "done"}

\* A timer, a user event or another caller gets to run only when every
\* cycle is idle or waits for the timer inside a successful sendEmail:
\* a failed sendEmail and a sendReminder that sent no e-mail return
\* already settled promises, which resume the cycle before any other task.
Quiet ==
  \A p \in Procs :
    \/ pc[p] = "idle"
    \/ pc[p] = "awaitEmail" /\ emailResult[p] = "ok"

KeyOf(reminder) == <<reminder.invoiceId, reminder.type>>

\* the reminder the inner loop is at
Current(p) == reminders[p][pos[p]]

\* faulty variant of Dispatchable: a key whose dispatch failed is given up
DispatchableUnlessFailed(reminder) ==
  /\ reminder.status = "pending"
  /\ now >= reminder.scheduledFor
  /\ failCalls[KeyOf(reminder)] = 0

\* faulty variant of Dispatchable: the scheduled date is not looked at
DispatchableAnyDate(reminder) ==
  reminder.status = "pending"

\* the guard of the inner loop:
\* reminder.status === 'pending' && new Date() >= reminder.scheduledFor
Dispatchable(reminder) ==
  reminder.status = "pending" /\ now >= reminder.scheduledFor

\* templateMap of sendReminder
templateMap(type) ==
  CASE type = "due_soon"      -> "payment_reminder"
    [] type = "overdue_1"     -> "invoice_overdue"
    [] type = "overdue_7"     -> "invoice_overdue"
    [] type = "overdue_14"    -> "invoice_overdue"
    [] type = "overdue_30"    -> "final_warning"
    [] type = "final_warning" -> "final_warning"

\* faulty variant of sendEmail: the switch of the service is not looked at
sendEmailIgnoringSwitch(template) ==
  template \in EMAIL_TEMPLATES

\* EmailService.sendEmail: success of the EmailResponse
sendEmail(template) ==
  IF ~isEnabled THEN FALSE
  ELSE IF template \notin EMAIL_TEMPLATES THEN FALSE
  ELSE TRUE

\* what sendReminder returns
sendReminderResult == TRUE

\* sendReminder's update of the reminder: status 'sent', sentAt now
MarkSent(reminder) ==
  [reminder EXCEPT !.status = "sent", !.sentAt = now]

\* the batches a cycle is called with: the same invoice may come twice
Batches ==
  {<<>>, <<InvoiceA>>, <<InvoiceB>>, <<InvoiceB, InvoiceA>>,
   <<InvoiceB, InvoiceB>>, <<MalformedInvoice, InvoiceB>>}

\* processPendingReminders(invoices) is called
StartCycle(p, invoices) ==
  /\ Quiet
  /\ pc[p] = "idle"
  /\ cycles < MaxCycles
  /\ cycles' = cycles + 1
  /\ pc' = [pc EXCEPT ![p] = "loop"]
  /\ batch' = [batch EXCEPT ![p] = invoices]
  /\ idx' = [idx EXCEPT ![p] = 0]
  /\ reminders' = [reminders EXCEPT ![p] = <<>>]
  /\ pos' = [pos EXCEPT ![p] = 1]
  /\ sent' = [sent EXCEPT ![p] = 0]
  /\ failed' = [failed EXCEPT ![p] = 0]
  /\ emailResult' = [emailResult EXCEPT ![p] = "none"]
  /\ acked' = [acked EXCEPT ![p] = {}]
  /\ ackCount' = [ackCount EXCEPT ![p] = 0]
  /\ attempted' = [attempted EXCEPT ![p] = {}]
  /\ failedBefore' = [failedBefore EXCEPT ![p] = {k \in Keys : failCalls[k] > 0}]
  /\ steady' = [steady EXCEPT ![p] = TRUE]
  /\ UNCHANGED <<svcVars, planVars, okCalls, failCalls, marked, pushCalls, uiVars>>

\* faulty variant of NextInvoice: the loop goes over the invoices the service
\* knows instead of the invoices it was given
NextInvoiceOfAll(p) ==
  /\ pc[p] = "loop"
  /\ pos[p] > Len(reminders[p])
  /\ idx[p] < Len(batch[p])
  /\ idx' = [idx EXCEPT ![p] = idx[p] + 1]
  /\ \E invoice \in Invoices :
       reminders' = [reminders EXCEPT ![p] = calculateReminders(invoice)]
  /\ pos' = [pos EXCEPT ![p] = 1]
  /\ acked' = [acked EXCEPT ![p] = {}]
  /\ UNCHANGED <<svcVars, planVars, pc, batch, sent, failed, emailResult,
                 cycles, okCalls, failCalls, marked, ackCount, attempted,
                 failedBefore, steady, pushCalls, uiVars>>

\* faulty variant of NextInvoice: an invalid due date throws out of the loop
\* and the call rejects
NextInvoiceRejecting(p) ==
  /\ pc[p] = "loop"
  /\ pos[p] > Len(reminders[p])
  /\ idx[p] < Len(batch[p])
  /\ idx' = [idx EXCEPT ![p] = idx[p] + 1]
  /\ IF InvalidDate(batch[p][idx[p] + 1])
       THEN pc' = [pc EXCEPT ![p] = "rejected"] /\ UNCHANGED reminders
       ELSE /\ reminders' = [reminders EXCEPT
                               ![p] = calculateReminders(batch[p][idx[p] + 1])]
            /\ UNCHANGED pc
  /\ pos' = [pos EXCEPT ![p] = 1]
  /\ acked' = [acked EXCEPT ![p] = {}]
  /\ UNCHANGED <<svcVars, planVars, batch, sent, failed, emailResult,
                 cycles, okCalls, failCalls, marked, ackCount, attempted,
                 failedBefore, steady, pushCalls, uiVars>>

\* the outer loop takes the next invoice and plans its reminders
NextInvoice(p) ==
  /\ pc[p] = "loop"
  /\ pos[p] > Len(reminders[p])
  /\ idx[p] < Len(batch[p])
  /\ idx' = [idx EXCEPT ![p] = idx[p] + 1]
  /\ reminders' = [reminders EXCEPT ![p] = calculateReminders(batch[p][idx[p] + 1])]
  /\ pos' = [pos EXCEPT ![p] = 1]
  /\ acked' = [acked EXCEPT ![p] = {}]
  /\ UNCHANGED <<svcVars, planVars, pc, batch, sent, failed, emailResult,
                 cycles, okCalls, failCalls, marked, ackCount, attempted,
                 failedBefore, steady, pushCalls, uiVars>>

\* the inner loop passes over a reminder its guard rejects
SkipReminder(p) ==
  /\ pc[p] = "loop"
  /\ pos[p] <= Len(reminders[p])
  /\ ~Dispatchable(Current(p))
  /\ pos' = [pos EXCEPT ![p] = pos[p] + 1]
  /\ UNCHANGED <<svcVars, planVars, pc, batch, idx, reminders, sent, failed,
                 emailResult, histVars, uiVars>>

\* the inner loop calls sendReminder, which runs to its first await:
\* with enableEmail it calls sendEmail and awaits the response, without
\* it sets the status at once and returns
SendReminder(p) ==
  /\ pc[p] = "loop"
  /\ pos[p] <= Len(reminders[p])
  /\ Dispatchable(Current(p))
  /\ attempted' = [attempted EXCEPT ![p] = @ \cup {KeyOf(Current(p))}]
  /\ IF config.enableEmail
       THEN LET ok == sendEmail(templateMap(Current(p).type))
                k == KeyOf(Current(p))
            IN /\ emailResult' = [emailResult EXCEPT ![p] = IF ok THEN "ok" ELSE "fail"]
               /\ okCalls' = IF ok THEN [okCalls EXCEPT ![k] = @ + 1] ELSE okCalls
               /\ failCalls' = IF ok THEN failCalls ELSE [failCalls EXCEPT ![k] = @ + 1]
               /\ acked' = IF ok THEN [acked EXCEPT ![p] = @ \cup {pos[p]}] ELSE acked
               /\ ackCount' = IF ok THEN [ackCount EXCEPT ![p] = @ + 1] ELSE ackCount
               /\ pc' = [pc EXCEPT ![p] = "awaitEmail"]
               /\ UNCHANGED <<reminders, marked>>
       ELSE /\ reminders' = [reminders EXCEPT ![p][pos[p]] = MarkSent(@)]
            /\ marked' = [marked EXCEPT ![KeyOf(Current(p))] = @ + 1]
            /\ pc' = [pc EXCEPT ![p] = "awaitSend"]
            /\ UNCHANGED <<emailResult, okCalls, failCalls, acked, ackCount>>
  /\ UNCHANGED <<svcVars, planVars, batch, idx, pos, sent, failed, cycles,
                 failedBefore, steady, pushCalls, uiVars>>

\* faulty variant of EmailReturns: the sent reminder is also put into the
\* map of the service
EmailReturnsStoring(p) ==
  /\ ~Running
  /\ pc[p] = "awaitEmail"
  /\ reminders' = [reminders EXCEPT ![p][pos[p]] = MarkSent(@)]
  /\ marked' = [marked EXCEPT ![KeyOf(Current(p))] = @ + 1]
  /\ remindersMap' = remindersMap \cup {KeyOf(Current(p))}
  /\ pc' = [pc EXCEPT ![p] = "awaitSend"]
  /\ UNCHANGED <<now, config, isEnabled, planVars, batch, idx, pos, sent,
                 failed, emailResult, cycles, okCalls, failCalls, acked,
                 ackCount, attempted, failedBefore, steady, pushCalls, uiVars>>

\* the EmailResponse arrives; sendReminder ignores it, sets the status and
\* returns
EmailReturns(p) ==
  /\ ~Running
  /\ pc[p] = "awaitEmail"
  /\ reminders' = [reminders EXCEPT ![p][pos[p]] = MarkSent(@)]
  /\ marked' = [marked EXCEPT ![KeyOf(Current(p))] = @ + 1]
  /\ pc' = [pc EXCEPT ![p] = "awaitSend"]
  /\ UNCHANGED <<svcVars, planVars, batch, idx, pos, sent, failed,
                 emailResult, cycles, okCalls, failCalls, acked, ackCount,
                 attempted, failedBefore, steady, pushCalls, uiVars>>

\* faulty variant of Resume: a reminder whose e-mail failed is not counted
ResumeUncounted(p) ==
  /\ ~Running
  /\ pc[p] = "awaitSend"
  /\ IF emailResult[p] = "fail"
       THEN UNCHANGED <<sent, failed>>
       ELSE sent' = [sent EXCEPT ![p] = @ + 1] /\ UNCHANGED failed
  /\ pos' = [pos EXCEPT ![p] = pos[p] + 1]
  /\ emailResult' = [emailResult EXCEPT ![p] = "none"]
  /\ pc' = [pc EXCEPT ![p] = "loop"]
  /\ UNCHANGED <<svcVars, planVars, batch, idx, reminders, histVars, uiVars>>

\* processPendingReminders resumes with sendReminder's value and counts it
Resume(p) ==
  /\ ~Running
  /\ pc[p] = "awaitSend"
  /\ IF sendReminderResult
       THEN sent' = [sent EXCEPT ![p] = @ + 1] /\ UNCHANGED failed
       ELSE failed' = [failed EXCEPT ![p] = @ + 1] /\ UNCHANGED sent
  /\ pos' = [pos EXCEPT ![p] = pos[p] + 1]
  /\ emailResult' = [emailResult EXCEPT ![p] = "none"]
  /\ pc' = [pc EXCEPT ![p] = "loop"]
  /\ UNCHANGED <<svcVars, planVars, batch, idx, reminders, histVars, uiVars>>

\* both loops are through: return { sent, failed }
FinishCycle(p) ==
  /\ pc[p] = "loop"
  /\ pos[p] > Len(reminders[p])
  /\ idx[p] >= Len(batch[p])
  /\ pc' = [pc EXCEPT ![p] = "done"]
  /\ UNCHANGED <<svcVars, planVars, batch, idx, reminders, pos, sent, failed,
                 emailResult, histVars, uiVars>>

\* the caller has the result: the call is over
Return(p) ==
  /\ pc[p] = "done"
  /\ pc' = [pc EXCEPT ![p] = "idle"]
  /\ batch' = [batch EXCEPT ![p] = <<>>]
  /\ idx' = [idx EXCEPT ![p] = 0]
  /\ reminders' = [reminders EXCEPT ![p] = <<>>]
  /\ pos' = [pos EXCEPT ![p] = 1]
  /\ sent' = [sent EXCEPT ![p] = 0]
  /\ failed' = [failed EXCEPT ![p] = 0]
  /\ acked' = [acked EXCEPT ![p] = {}]
  /\ ackCount' = [ackCount EXCEPT ![p] = 0]
  /\ attempted' = [attempted EXCEPT ![p] = {}]
  /\ failedBefore' = [failedBefore EXCEPT ![p] = {}]
  /\ steady' = [steady EXCEPT ![p] = TRUE]
  /\ UNCHANGED <<svcVars, planVars, emailResult, cycles, okCalls, failCalls,
                 marked, pushCalls, uiVars>>

\* a client calls calculateReminders(invoice) directly
CallCalculateReminders(invoice) ==
  /\ Quiet
  /\ planIn' = [invoice |-> invoice, today |-> now, config |-> config]
  /\ planOut' = calculateReminders(invoice)
  /\ UNCHANGED <<svcVars, cycleVars, histVars, uiVars>>

\* a cycle in flight has seen the clock or the configuration change
Unsteady == [p \in Procs |-> steady[p] /\ pc[p] = "idle"]

\* the partial configurations setConfig is called with
ConfigUpdates == {[enableEmail |-> FALSE], [enableEmail |-> TRUE]}

\* setConfig(partial): this.config = { ...this.config, ...partial }
SetConfig(partial) ==
  /\ Quiet
  /\ config' = [f \in DOMAIN config |->
                  IF f \in DOMAIN partial THEN partial[f] ELSE config[f]]
  /\ config' # config
  /\ steady' = Unsteady
  /\ planIn' = NoCall
  /\ planOut' = <<>>
  /\ UNCHANGED <<now, isEnabled, remindersMap, cycleVars, cycles, okCalls,
                 failCalls, marked, acked, ackCount, attempted, failedBefore, pushCalls, uiVars>>

\* emailService.setEnabled(enabled)
SetEnabled(enabled) ==
  /\ Quiet
  /\ isEnabled # enabled
  /\ isEnabled' = enabled
  /\ UNCHANGED <<now, config, remindersMap, planVars, cycleVars, histVars, uiVars>>

\* a day passes
Tick ==
  /\ Quiet
  /\ now + TicksPerDay < (MaxDay + 1) * TicksPerDay
  /\ now' = now + TicksPerDay
  /\ steady' = Unsteady
  /\ planIn' = NoCall
  /\ planOut' = <<>>
  /\ UNCHANGED <<config, isEnabled, remindersMap, cycleVars, cycles, okCalls,
                 failCalls, marked, acked, ackCount, attempted, failedBefore, pushCalls, uiVars>>

\* ------------------------------------------------ useEmailNotifications
DEFAULT_PREFERENCES ==
  [enabled |-> TRUE, cases |-> TRUE, invoices |-> TRUE, hearings |-> TRUE,
   messages |-> TRUE, documents |-> TRUE, marketing |-> FALSE]

\* the calls of the hook's functions that can be in flight together
MailCalls == {"m1", "m2"}

\* template names a payload can carry: the templates of the service and
\* the two names CollectionService uses that the service does not have
Templates == EMAIL_TEMPLATES \cup {"final_warning", "payment_reminder_urgent"}

\* templates the hook's sendEmail is called with
HookTemplates == {"invoice_overdue", "new_message", "final_warning"}

\* no sendEmail call yet
NoEmail ==
  [caller |-> "none", template |-> "none", enabled |-> TRUE,
   success |-> FALSE, messageId |-> "", logged |-> FALSE]

\* the state of the hook after mount with nothing stored
InitMail ==
  /\ preferences = DEFAULT_PREFERENCES
  /\ isSending = FALSE
  /\ lastSentEmail = "null"
  /\ emailError = "null"
  /\ mailPc = [c \in MailCalls |-> "idle"]
  /\ mailResult = [c \in MailCalls |-> "none"]
  /\ emailCalls = 0
  /\ serviceLog = NoEmail


\* the EmailResponse of emailService.sendEmail for a payload with this
\* template; `logged` tells whether the simulated e-mail was written out
sendEmailResponse(caller, template) ==
  [caller    |-> caller,
   template  |-> template,
   enabled   |-> isEnabled,
   success   |-> sendEmail(template),
   messageId |-> IF sendEmail(template) THEN "mock" ELSE "",
   logged    |-> sendEmail(template)]

\* templateMap of canSendTemplate: the preference a template belongs to
PreferenceKey(template) ==
  CASE template \in {"welcome", "case_update"} -> "cases"
    [] template \in {"invoice_created", "invoice_paid", "invoice_overdue",
                     "payment_reminder"} -> "invoices"
    [] template = "new_message" -> "messages"
    [] template = "hearing_reminder" -> "hearings"
    [] template = "document_available" -> "documents"
    [] OTHER -> "undefined"

\* faulty variant of canSendTemplate: the preference of the category is not
\* looked at
canSendTemplateOfAnyCategory(template) ==
  preferences.enabled

canSendTemplate(template) ==
  IF ~preferences.enabled THEN FALSE
  ELSE IF PreferenceKey(template) # "undefined"
         THEN preferences[PreferenceKey(template)]
         ELSE FALSE

\* the partial preferences updatePreferences is called with
PreferenceUpdates ==
  {[enabled |-> FALSE], [enabled |-> TRUE],
   [invoices |-> FALSE], [invoices |-> TRUE]}

\* updatePreferences(prefs)
UpdatePreferences(prefs) ==
  /\ preferences' = [f \in DOMAIN preferences |->
                       IF f \in DOMAIN prefs THEN prefs[f] ELSE preferences[f]]
  /\ preferences' # preferences
  /\ UNCHANGED <<isEnabled, coreVars, isSending, lastSentEmail, emailError,
                 mailPc, mailResult, emailCalls, serviceLog, payVars, pushVars>>

\* resetPreferences()
ResetPreferences ==
  /\ preferences # DEFAULT_PREFERENCES
  /\ preferences' = DEFAULT_PREFERENCES
  /\ UNCHANGED <<isEnabled, coreVars, isSending, lastSentEmail, emailError,
                 mailPc, mailResult, emailCalls, serviceLog, payVars, pushVars>>

\* the hook's sendEmail(payload) up to its first await on a timer: the two
\* early returns, or the call of emailService.sendEmail, whose failure
\* comes back in an already settled promise and lets the call run to its
\* end
HookSendEmail(c, template) ==
  /\ mailPc[c] = "idle"
  /\ emailCalls < MaxEmails
  /\ IF ~preferences.enabled
       THEN /\ emailError' = "Email notifications are disabled"
            /\ mailResult' = [mailResult EXCEPT ![c] = "null"]
            /\ UNCHANGED <<isSending, lastSentEmail, mailPc, emailCalls,
                           serviceLog>>
       ELSE IF ~canSendTemplate(template)
         THEN /\ mailResult' = [mailResult EXCEPT ![c] = "null"]
              /\ UNCHANGED <<isSending, lastSentEmail, emailError, mailPc,
                             emailCalls, serviceLog>>
         ELSE LET response == sendEmailResponse("sendEmail", template) IN
              /\ emailCalls' = emailCalls + 1
              /\ serviceLog' = response
              /\ IF response.success
                   THEN /\ isSending' = TRUE
                        /\ emailError' = "null"
                        /\ mailPc' = [mailPc EXCEPT ![c] = "sendEmail"]
                        /\ mailResult' = [mailResult EXCEPT ![c] = "none"]
                        /\ UNCHANGED lastSentEmail
                   ELSE /\ isSending' = FALSE
                        /\ lastSentEmail' = "failure"
                        /\ emailError' = "Failed to send email"
                        /\ mailResult' = [mailResult EXCEPT ![c] = "response"]
                        /\ UNCHANGED mailPc
  /\ UNCHANGED <<isEnabled, coreVars, preferences, payVars, pushVars>>

\* the timer of the service has fired: the response arrives in sendEmail
HookSendEmailResolves(c) ==
  /\ mailPc[c] = "sendEmail"
  /\ lastSentEmail' = "success"
  /\ isSending' = FALSE
  /\ mailResult' = [mailResult EXCEPT ![c] = "response"]
  /\ mailPc' = [mailPc EXCEPT ![c] = "idle"]
  /\ UNCHANGED <<isEnabled, coreVars, preferences, emailError, emailCalls,
                 serviceLog, payVars, pushVars>>

\* the hook's sendTestEmail() up to its first await on a timer
HookSendTestEmail(c) ==
  /\ mailPc[c] = "idle"
  /\ emailCalls < MaxEmails
  /\ LET response == sendEmailResponse("sendTestEmail", "welcome") IN
     /\ emailCalls' = emailCalls + 1
     /\ serviceLog' = response
     /\ emailError' = "null"
     /\ IF response.success
          THEN /\ isSending' = TRUE
               /\ mailPc' = [mailPc EXCEPT ![c] = "sendTestEmail"]
               /\ mailResult' = [mailResult EXCEPT ![c] = "none"]
               /\ UNCHANGED lastSentEmail
          ELSE /\ isSending' = FALSE
               /\ lastSentEmail' = "failure"
               /\ mailResult' = [mailResult EXCEPT ![c] = "false"]
               /\ UNCHANGED mailPc
  /\ UNCHANGED <<isEnabled, coreVars, preferences, payVars, pushVars>>

\* the timer of the service has fired: the response arrives in
\* sendTestEmail
HookSendTestEmailResolves(c) ==
  /\ mailPc[c] = "sendTestEmail"
  /\ lastSentEmail' = "success"
  /\ isSending' = FALSE
  /\ mailResult' = [mailResult EXCEPT ![c] = "true"]
  /\ mailPc' = [mailPc EXCEPT ![c] = "idle"]
  /\ UNCHANGED <<isEnabled, coreVars, preferences, emailError, emailCalls,
                 serviceLog, payVars, pushVars>>

\* another client calls emailService.sendEmail(payload)
ClientSendEmail(template) ==
  /\ emailCalls < MaxEmails
  /\ emailCalls' = emailCalls + 1
  /\ serviceLog' = sendEmailResponse("client", template)
  /\ UNCHANGED <<isEnabled, coreVars, preferences, isSending, lastSentEmail,
                 emailError, mailPc, mailResult, payVars, pushVars>>

\* ---------------------------------------------------------- usePayments
\* the processPayment calls of the hook that can be in flight together
PayCalls == {"p1", "p2"}

\* the largest amount validateAmount accepts, 999999.99, in cents
MaxAmount == 99999999

\* amounts (in cents) processPayment is called with
Amounts == {-1, 0, 1, MaxAmount, MaxAmount + 1}

Modes == {"hosted", "embedded"}

\* the state of the hook and of the service after construction
InitPayments ==
  /\ paymentState = "idle"
  /\ lastPayment = "null"
  /\ paymentError = "null"
  /\ isTestMode = TRUE
  /\ payPc = [c \in PayCalls |-> "idle"]
  /\ payResult = [c \in PayCalls |-> "none"]
  /\ payCalls = 0


\* faulty variant of validateAmount: an amount of 0 passes
validateAmountFromZero(amount) ==
  IF amount < 0 THEN "El importe debe ser mayor a 0"
  ELSE IF amount > MaxAmount THEN "El importe excede el limite permitido"
  ELSE "valid"

\* PaymentService.validateAmount: "valid", or the error of the validation
validateAmount(amount) ==
  IF amount <= 0 THEN "El importe debe ser mayor a 0"
  ELSE IF amount > MaxAmount THEN "El importe excede el limite permitido"
  ELSE "valid"

\* the hook's processPayment(payment, options) up to its first await on a
\* timer: an amount that fails the validation throws into the catch block
\* and the call ends at once, any other goes to the service
ProcessPayment(c, amount, mode) ==
  /\ payPc[c] = "idle"
  /\ payCalls < MaxPayments
  /\ lastPayment' = "null"
  /\ IF validateAmount(amount) # "valid"
       THEN /\ paymentState' = "error"
            /\ paymentError' = validateAmount(amount)
            /\ payResult' = [payResult EXCEPT ![c] = "failed"]
            /\ UNCHANGED <<payPc, payCalls>>
       ELSE /\ paymentState' = "processing"
            /\ paymentError' = "null"
            /\ payCalls' = payCalls + 1
            /\ payPc' = [payPc EXCEPT
                 ![c] = IF mode = "hosted" THEN "createCheckoutSession"
                                           ELSE "createPaymentIntent"]
            /\ payResult' = [payResult EXCEPT ![c] = "none"]
  /\ UNCHANGED <<isEnabled, coreVars, mailVars, pushVars, isTestMode>>

\* the result of paymentService.processPayment arrives in the hook
PaymentCompletes(c, success, error) ==
  /\ payPc' = [payPc EXCEPT ![c] = "idle"]
  /\ IF success
       THEN /\ paymentState' = "success"
            /\ lastPayment' = "completed"
            /\ payResult' = [payResult EXCEPT ![c] = "success"]
            /\ UNCHANGED paymentError
       ELSE /\ paymentState' = "error"
            /\ paymentError' = error
            /\ payResult' = [payResult EXCEPT ![c] = "failed"]
            /\ UNCHANGED lastPayment
  /\ UNCHANGED <<isEnabled, coreVars, mailVars, pushVars, isTestMode, payCalls>>

\* createCheckoutSession returns: with a url in test mode, and the service
\* waits for the simulated redirect; without one otherwise, and
\* processPayment returns its failure
SessionCreated(c) ==
  /\ payPc[c] = "createCheckoutSession"
  /\ IF isTestMode
       THEN /\ payPc' = [payPc EXCEPT ![c] = "redirect"]
            /\ UNCHANGED <<isEnabled, coreVars, mailVars, pushVars, paymentState,
                           lastPayment, paymentError, isTestMode, payResult,
                           payCalls>>
       ELSE PaymentCompletes(c, FALSE, "Failed to create payment session")

\* the simulated redirect is over: processPayment returns success
Redirected(c) ==
  /\ payPc[c] = "redirect"
  /\ PaymentCompletes(c, TRUE, "null")

\* createPaymentIntent returns and confirmPayment is called
IntentCreated(c) ==
  /\ payPc[c] = "createPaymentIntent"
  /\ payPc' = [payPc EXCEPT ![c] = "confirmPayment"]
  /\ UNCHANGED <<isEnabled, coreVars, mailVars, pushVars, paymentState, lastPayment,
                 paymentError, isTestMode, payResult, payCalls>>

\* confirmPayment returns, success or not by Math.random()
PaymentConfirmed(c, success) ==
  /\ payPc[c] = "confirmPayment"
  /\ PaymentCompletes(c, success, "Payment declined. Please try another card.")

\* resetState()
ResetState ==
  /\ <<paymentState, lastPayment, paymentError>> # <<"idle", "null", "null">>
  /\ paymentState' = "idle"
  /\ lastPayment' = "null"
  /\ paymentError' = "null"
  /\ UNCHANGED <<isEnabled, coreVars, mailVars, pushVars, isTestMode, payPc, payResult,
                 payCalls>>

\* paymentService.setTestMode(testMode)
SetTestMode(testMode) ==
  /\ isTestMode # testMode
  /\ isTestMode' = testMode
  /\ UNCHANGED <<isEnabled, coreVars, mailVars, pushVars, paymentState, lastPayment,
                 paymentError, payPc, payResult, payCalls>>

\* ------------------------------------------------ usePushNotifications
\* the operations of the hook: the mount effect and the three callbacks
PushOps == {"mount", "refreshStatus", "requestPermission", "unsubscribe"}

Permissions == {"default", "granted", "denied"}

\* the hook's useState values and the fields of a new PushService
InitPushHook ==
  /\ registration = FALSE
  /\ svcSubscription = FALSE
  /\ isSupported = FALSE
  /\ permission = "default"
  /\ isSubscribed = FALSE
  /\ isLoading = TRUE
  /\ pushError = "null"
  /\ subscription = "null"
  /\ pushPc = [op \in PushOps |-> IF op = "mount" THEN "start" ELSE "idle"]
  /\ pushResult = [op \in PushOps |-> "none"]
  /\ hookCalls = 0

\* a browser without push notifications
InitBrowser ==
  /\ supported = FALSE
  /\ notificationPermission = "default"
  /\ pushSubscribed = FALSE
  /\ localSubscription = FALSE

\* any browser the page can be loaded in: a subscription of an earlier
\* visit needs push support and a granted permission
InitAnyBrowser ==
  /\ supported \in BOOLEAN
  /\ notificationPermission \in Permissions
  /\ pushSubscribed \in BOOLEAN
  /\ localSubscription \in BOOLEAN
  /\ pushSubscribed => (supported /\ notificationPermission = "granted")

InitUi == InitMail /\ InitPayments /\ InitPushHook

\* pushService.getLocalSubscription()
getLocalSubscription(stored) == IF stored THEN "data" ELSE "null"

\* faulty variant of getSubscription: a subscription is always reported
getSubscriptionAlways(reg) == TRUE

\* registration?.pushManager.getSubscription() ?? null, as non-null or not,
\* with the registration `reg`
getSubscription(reg) == reg /\ pushSubscribed

\* the registration after pushService.init(), whose register() call
\* succeeds (ok) or throws
RegistrationAfterInit(ok) == registration \/ ok

\* the mount effect up to its first await: checkSupport() sets isSupported
\* and, without support, isLoading
CheckSupport ==
  /\ pushPc["mount"] = "start"
  /\ isSupported' = supported
  /\ IF supported
       THEN /\ pushPc' = [pushPc EXCEPT !["mount"] = "init"]
            /\ UNCHANGED isLoading
       ELSE /\ pushPc' = [pushPc EXCEPT !["mount"] = "idle"]
            /\ isLoading' = FALSE
  /\ UNCHANGED <<nonPushVars, browserVars, registration, svcSubscription,
                 permission, isSubscribed, pushError, subscription,
                 pushResult, hookCalls>>

\* refreshStatus() up to its first await
RefreshStatus ==
  /\ pushPc["mount"] # "start"
  /\ pushPc["refreshStatus"] = "idle"
  /\ hookCalls < MaxPushCalls
  /\ hookCalls' = hookCalls + 1
  /\ IF ~isSupported
       THEN /\ pushResult' = [pushResult EXCEPT !["refreshStatus"] = "undefined"]
            /\ UNCHANGED <<isLoading, pushPc>>
       ELSE /\ isLoading' = TRUE
            /\ pushPc' = [pushPc EXCEPT !["refreshStatus"] = "init"]
            /\ pushResult' = [pushResult EXCEPT !["refreshStatus"] = "none"]
  /\ UNCHANGED <<nonPushVars, browserVars, registration, svcSubscription,
                 isSupported, permission, isSubscribed, pushError,
                 subscription>>

\* pushService.init() returns to the mount effect or to refreshStatus,
\* which reads the permission and calls pushService.isSubscribed()
ServiceInitReturns(op, ok) ==
  /\ op \in {"mount", "refreshStatus"}
  /\ pushPc[op] = "init"
  /\ IF ok
       THEN /\ registration' = TRUE
            /\ svcSubscription' = pushSubscribed
       ELSE UNCHANGED <<registration, svcSubscription>>
  /\ permission' = notificationPermission
  /\ pushPc' = [pushPc EXCEPT ![op] = "isSubscribed"]
  /\ UNCHANGED <<nonPushVars, browserVars, isSupported, isSubscribed,
                 isLoading, pushError, subscription, pushResult, hookCalls>>

\* pushService.isSubscribed() returns to the mount effect or to
\* refreshStatus, or getSubscription() rejects: refreshStatus catches the
\* error, the mount effect ends with it
IsSubscribedReturns(op, ok, throws) ==
  /\ op \in {"mount", "refreshStatus"}
  /\ pushPc[op] = "isSubscribed"
  /\ registration' = RegistrationAfterInit(ok)
  /\ throws => registration'
  /\ pushPc' = [pushPc EXCEPT ![op] = "idle"]
  /\ pushResult' = [pushResult EXCEPT ![op] = "undefined"]
  /\ IF throws
       THEN /\ UNCHANGED <<svcSubscription, isSubscribed, subscription>>
            /\ IF op = "refreshStatus"
                 THEN /\ pushError' = "Failed to refresh status"
                      /\ isLoading' = FALSE
                 ELSE UNCHANGED <<pushError, isLoading>>
       ELSE /\ svcSubscription' = getSubscription(registration')
            /\ isSubscribed' = getSubscription(registration')
            /\ subscription' = getLocalSubscription(localSubscription)
            /\ isLoading' = FALSE
            /\ UNCHANGED pushError
  /\ UNCHANGED <<nonPushVars, browserVars, isSupported, permission,
                 hookCalls>>

\* requestPermission() up to its first await
RequestPermission ==
  /\ pushPc["mount"] # "start"
  /\ pushPc["requestPermission"] = "idle"
  /\ hookCalls < MaxPushCalls
  /\ hookCalls' = hookCalls + 1
  /\ IF ~isSupported
       THEN /\ pushError' = "Push notifications not supported"
            /\ pushResult' = [pushResult EXCEPT !["requestPermission"] = "false"]
            /\ UNCHANGED <<isLoading, pushPc>>
       ELSE /\ isLoading' = TRUE
            /\ pushError' = "null"
            /\ pushPc' = [pushPc EXCEPT
                 !["requestPermission"] = "Notification.requestPermission"]
            /\ pushResult' = [pushResult EXCEPT !["requestPermission"] = "none"]
  /\ UNCHANGED <<nonPushVars, browserVars, registration, svcSubscription,
                 isSupported, permission, isSubscribed, subscription>>

\* Notification.requestPermission() answers p: the user is asked only
\* while the permission is 'default'. Granted, pushService subscribes;
\* otherwise it returns false to the hook
PermissionAnswered(p) ==
  /\ pushPc["requestPermission"] = "Notification.requestPermission"
  /\ notificationPermission # "default" => p = notificationPermission
  /\ notificationPermission' = p
  /\ IF p = "granted"
       THEN /\ pushPc' = [pushPc EXCEPT !["requestPermission"] = "subscribe"]
            /\ UNCHANGED <<pushError, isLoading, pushResult>>
       ELSE /\ pushPc' = [pushPc EXCEPT !["requestPermission"] = "idle"]
            /\ pushError' = "Permission denied"
            /\ isLoading' = FALSE
            /\ pushResult' = [pushResult EXCEPT !["requestPermission"] = "false"]
  /\ UNCHANGED <<nonPushVars, supported, pushSubscribed, localSubscription,
                 registration, svcSubscription, isSupported, permission,
                 isSubscribed, subscription, hookCalls>>

\* pushService.subscribe() returns, with a subscription (subscribed) or
\* with null, and pushService.requestPermission() returns true to the hook
SubscribeReturns(ok, subscribed) ==
  /\ pushPc["requestPermission"] = "subscribe"
  /\ registration' = RegistrationAfterInit(ok)
  /\ subscribed => registration'
  /\ IF subscribed
       THEN /\ pushSubscribed' = TRUE
            /\ svcSubscription' = TRUE
            /\ localSubscription' = TRUE
       ELSE UNCHANGED <<pushSubscribed, svcSubscription, localSubscription>>
  /\ permission' = notificationPermission
  /\ isSubscribed' = TRUE
  /\ subscription' = getLocalSubscription(localSubscription')
  /\ isLoading' = FALSE
  /\ pushPc' = [pushPc EXCEPT !["requestPermission"] = "idle"]
  /\ pushResult' = [pushResult EXCEPT !["requestPermission"] = "true"]
  /\ UNCHANGED <<nonPushVars, supported, notificationPermission, isSupported,
                 pushError, hookCalls>>

\* unsubscribe() up to its first await
Unsubscribe ==
  /\ pushPc["mount"] # "start"
  /\ pushPc["unsubscribe"] = "idle"
  /\ hookCalls < MaxPushCalls
  /\ hookCalls' = hookCalls + 1
  /\ IF ~isSupported
       THEN /\ pushResult' = [pushResult EXCEPT !["unsubscribe"] = "false"]
            /\ UNCHANGED <<isLoading, pushError, pushPc>>
       ELSE /\ isLoading' = TRUE
            /\ pushError' = "null"
            /\ pushPc' = [pushPc EXCEPT !["unsubscribe"] = "unsubscribe"]
            /\ pushResult' = [pushResult EXCEPT !["unsubscribe"] = "none"]
  /\ UNCHANGED <<nonPushVars, browserVars, registration, svcSubscription,
                 isSupported, permission, isSubscribed, subscription>>

\* pushService.unsubscribe() returns to the hook: true without a
\* subscription or once the subscription is removed, false when
\* subscription.unsubscribe() throws
UnsubscribeReturns(throws) ==
  /\ pushPc["unsubscribe"] = "unsubscribe"
  /\ LET held == svcSubscription \/ getSubscription(registration)
     IN  /\ throws => held
         /\ svcSubscription' = (held /\ throws)
         /\ IF held /\ ~throws
              THEN /\ pushSubscribed' = FALSE
                   /\ localSubscription' = FALSE
              ELSE UNCHANGED <<pushSubscribed, localSubscription>>
  /\ IF throws
       THEN /\ pushResult' = [pushResult EXCEPT !["unsubscribe"] = "false"]
            /\ UNCHANGED <<permission, isSubscribed, subscription>>
       ELSE /\ pushResult' = [pushResult EXCEPT !["unsubscribe"] = "true"]
            /\ permission' = notificationPermission
            /\ isSubscribed' = FALSE
            /\ subscription' = "null"
  /\ isLoading' = FALSE
  /\ pushPc' = [pushPc EXCEPT !["unsubscribe"] = "idle"]
  /\ UNCHANGED <<nonPushVars, supported, notificationPermission, registration,
                 isSupported, pushError, hookCalls>>

\* the interval of the second effect: handlePermissionChange()
HandlePermissionChange ==
  /\ isSupported
  /\ permission # notificationPermission
  /\ permission' = notificationPermission
  /\ UNCHANGED <<nonPushVars, browserVars, registration, svcSubscription,
                 isSupported, isSubscribed, isLoading, pushError,
                 subscription, pushPc, pushResult, hookCalls>>

\* --------------------------------------------- processing specification
\* the single periodic driver
Driver == "c1"

Init ==
  /\ now = TicksPerDay - 1
  /\ config = DEFAULT_CONFIG
  /\ isEnabled = TRUE
  /\ planIn = NoCall
  /\ planOut = <<>>
  /\ InitCycles
  /\ InitUi
  /\ InitBrowser

Next ==
  \/ \E invoices \in Batches : StartCycle(Driver, invoices)
  \/ NextInvoice(Driver)
  \/ SkipReminder(Driver)
  \/ SendReminder(Driver)
  \/ EmailReturns(Driver)
  \/ Resume(Driver)
  \/ FinishCycle(Driver)
  \/ Return(Driver)
  \/ \E partial \in ConfigUpdates : SetConfig(partial)
  \/ \E enabled \in BOOLEAN : SetEnabled(enabled)
  \/ Tick

Spec == Init /\ [][Next]_vars

\* the same, with clients that also call calculateReminders themselves
NextReplay ==
  \/ Next
  \/ \E invoice \in Invoices : CallCalculateReminders(invoice)

SpecReplay == Init /\ [][NextReplay]_vars

\* ---------------------------------------------- concurrent specification
\* two callers of processPendingReminders: the second call can start while
\* the first waits for the timer of a sendEmail
NextConcurrent ==
  \E p \in Procs :
    \/ \E invoices \in Batches : StartCycle(p, invoices)
    \/ NextInvoice(p)
    \/ SkipReminder(p)
    \/ SendReminder(p)
    \/ EmailReturns(p)
    \/ Resume(p)
    \/ FinishCycle(p)
    \/ Return(p)

SpecConcurrent == Init /\ [][NextConcurrent]_vars

\* ------------------------------------------------- e-mail specification
\* the hook, direct clients of the EmailService and its switch
NextEmail ==
  \/ \E prefs \in PreferenceUpdates : UpdatePreferences(prefs)
  \/ ResetPreferences
  \/ \E c \in MailCalls, template \in HookTemplates : HookSendEmail(c, template)
  \/ \E c \in MailCalls : HookSendEmailResolves(c)
  \/ \E c \in MailCalls : HookSendTestEmail(c)
  \/ \E c \in MailCalls : HookSendTestEmailResolves(c)
  \/ \E template \in Templates : ClientSendEmail(template)
  \/ \E enabled \in BOOLEAN : SetEnabled(enabled)

SpecEmail == Init /\ [][NextEmail]_vars

\* ----------------------------------------------- payments specification
NextPayments ==
  \/ \E c \in PayCalls, amount \in Amounts, mode \in Modes :
       ProcessPayment(c, amount, mode)
  \/ \E c \in PayCalls : SessionCreated(c)
  \/ \E c \in PayCalls : Redirected(c)
  \/ \E c \in PayCalls : IntentCreated(c)
  \/ \E c \in PayCalls, success \in BOOLEAN : PaymentConfirmed(c, success)
  \/ ResetState
  \/ \E testMode \in BOOLEAN : SetTestMode(testMode)

SpecPayments == Init /\ [][NextPayments]_vars

\* --------------------------------------------------- push specification
InitPush ==
  /\ now = TicksPerDay - 1
  /\ config = DEFAULT_CONFIG
  /\ isEnabled = TRUE
  /\ planIn = NoCall
  /\ planOut = <<>>
  /\ InitCycles
  /\ InitUi
  /\ InitAnyBrowser

NextPush ==
  \/ CheckSupport
  \/ RefreshStatus
  \/ \E op \in PushOps, ok \in BOOLEAN : ServiceInitReturns(op, ok)
  \/ \E op \in PushOps, ok, throws \in BOOLEAN :
       IsSubscribedReturns(op, ok, throws)
  \/ RequestPermission
  \/ \E p \in Permissions : PermissionAnswered(p)
  \/ \E ok, subscribed \in BOOLEAN : SubscribeReturns(ok, subscribed)
  \/ Unsubscribe
  \/ \E throws \in BOOLEAN : UnsubscribeReturns(throws)
  \/ HandlePermissionChange

SpecPush == InitPush /\ [][NextPush]_vars

\* ------------------------------------------------- planner specification
BeforeChoices ==
  {<<>>, <<1>>, <<3, 1>>, <<1, 3>>, <<3, 3>>, <<0>>, <<0, 0>>}
AfterChoices == {<<>>, <<1, 7, 14, 30>>, <<7, 10>>, <<30, 1>>, <<0>>, <<1, 1>>}

PlannerConfigs ==
  {[daysBeforeDue |-> b, daysAfterDue |-> a, enableEmail |-> TRUE,
    enablePush |-> TRUE, maxReminders |-> m] :
     b \in BeforeChoices, a \in AfterChoices, m \in 0..MaxMaxReminders}

InitPlanner ==
  /\ now \in 0..(PlannerMaxDay * TicksPerDay + TicksPerDay - 1)
  /\ config \in PlannerConfigs
  /\ isEnabled = TRUE
  /\ planIn = NoCall
  /\ planOut = <<>>
  /\ InitCycles
  /\ InitUi
  /\ InitBrowser

NextPlanner == \E invoice \in Invoices : CallCalculateReminders(invoice)

SpecPlanner == InitPlanner /\ [][NextPlanner]_vars

\* ------------------------------------------------- claims on the planner
\* a direct calculateReminders call has returned
Planned == planIn # NoCall

\* whole days from the `today` of the call to the due date of its invoice
PlannedDaysUntilDue ==
  planIn.invoice.dueDay - (planIn.today \div TicksPerDay)

\* largest element of a non-empty sequence of numbers
MaxOf(s) == CHOOSE m \in Range(s) : \A x \in Range(s) : x <= m

\* number of returned events of a type
CountType(list, type) ==
  Cardinality({k \in DOMAIN list : list[k].type = type})

\* C5: the list a Planner call returns has at most config.maxReminders
\* entries, and none when maxReminders is 0.
C5_AtMostMaxReminders ==
  Planned =>
    /\ Len(planOut) <= planIn.config.maxReminders
    /\ (planIn.config.maxReminders = 0 => planOut = <<>>)

\* C5 witness: a call whose offsets qualify more events than maxReminders
\* allows, so that the list was cut.
C5_Witness ==
  /\ Planned
  /\ planIn.config.daysAfterDue = <<1, 7, 14, 30>>
  /\ PlannedDaysUntilDue < -30
  /\ planIn.config.maxReminders = 2
  /\ Len(planOut) = 2

\* C6 (as claimed): one Planner call returns no two events of the same
\* escalation tier.
C6_NoTwoEventsOfOneTier ==
  Planned =>
    \A k1, k2 \in DOMAIN planOut :
      k1 # k2 => planOut[k1].type # planOut[k2].type

\* C7 (as claimed): when daysUntilDue is strictly greater than the largest
\* before-due offset the Planner returns the empty list.
C7_EmptyBeyondLargestOffset ==
  (/\ Planned
   /\ planIn.config.daysBeforeDue # <<>>
   /\ PlannedDaysUntilDue > MaxOf(planIn.config.daysBeforeDue))
  => planOut = <<>>

\* C7 (amended): when daysUntilDue is strictly greater than the largest
\* before-due offset the Planner returns nothing that is due: one due-soon
\* event per configured before-due offset, as many as maxReminders allows,
\* each scheduled strictly after today, and no after-due event.
C7_NothingDueBeyondLargestOffset ==
  (/\ Planned
   /\ planIn.config.daysBeforeDue # <<>>
   /\ PlannedDaysUntilDue > MaxOf(planIn.config.daysBeforeDue))
  => /\ Len(planOut) = Min(Len(planIn.config.daysBeforeDue),
                           planIn.config.maxReminders)
     /\ \A k \in DOMAIN planOut :
          /\ planOut[k].type = "due_soon"
          /\ planOut[k].days = planIn.config.daysBeforeDue[k]
          /\ planOut[k].scheduledFor > planIn.today
          /\ planOut[k].scheduledFor
               = planIn.today
                 + (PlannedDaysUntilDue - planOut[k].days) * TicksPerDay

\* C7 witness: such a call, returning a non-empty list.
C7_Witness ==
  /\ Planned
  /\ planIn.config.daysBeforeDue = <<3, 1>>
  /\ PlannedDaysUntilDue = 5
  /\ Len(planOut) = 2

\* C9 (as claimed): when several before-due offsets qualify only one
\* due-soon event is returned; for dueDate = today + 3 and beforeDue = [3,1]
\* it is scheduled for today and carries the standard template.
C9_OneDueSoonEvent ==
  (/\ Planned
   /\ planIn.config.daysBeforeDue = <<3, 1>>
   /\ planIn.config.maxReminders >= 1
   /\ PlannedDaysUntilDue = 3)
  => /\ CountType(planOut, "due_soon") = 1
     /\ \A k \in DOMAIN planOut :
          planOut[k].type = "due_soon" =>
            /\ planOut[k].scheduledFor = planIn.today
            /\ planOut[k].template = "payment_reminder"

\* C10: for dueDate = today - 10 and afterDue = [1,7,14,30] (maxReminders
\* not cutting the list) the Planner returns one overdue_7 event, scheduled
\* for dueDate + 7 days, and no overdue_14, overdue_30 or final_warning
\* event.
C10_TenDaysOverdue ==
  (/\ Planned
   /\ planIn.config.daysAfterDue = <<1, 7, 14, 30>>
   /\ planIn.config.maxReminders >= 2
   /\ PlannedDaysUntilDue = -10)
  => /\ CountType(planOut, "overdue_7") = 1
     /\ \A k \in DOMAIN planOut :
          planOut[k].type = "overdue_7" =>
            /\ planOut[k].days = 7
            /\ planOut[k].scheduledFor
                 = (planIn.invoice.dueDay + 7) * TicksPerDay
     /\ CountType(planOut, "overdue_14") = 0
     /\ CountType(planOut, "overdue_30") = 0
     /\ CountType(planOut, "final_warning") = 0

\* C10 witness: the scenario, late in the day, with the default
\* maxReminders.
C10_Witness ==
  /\ Planned
  /\ planIn.config.daysAfterDue = <<1, 7, 14, 30>>
  /\ planIn.config.maxReminders = 5
  /\ PlannedDaysUntilDue = -10
  /\ planIn.today % TicksPerDay # 0
  /\ CountType(planOut, "overdue_7") = 1

\* insertion of a number into an ascending sequence of numbers
InsertAscending(x, s) ==
  LET n == Cardinality({k \in DOMAIN s : s[k] <= x})
  IN SubSeq(s, 1, n) \o <<x>> \o SubSeq(s, n + 1, Len(s))

\* a sequence of numbers in ascending order
RECURSIVE SortAscending(_)
SortAscending(s) ==
  IF s = <<>> THEN <<>> ELSE InsertAscending(Head(s), SortAscending(Tail(s)))

\* the events the two loops of the call produced, before the list was cut
\* (the clock and the configuration stand still in the planner
\* specification)
PlannedCandidates ==
  BeforeLoop(planIn.invoice, planIn.config.daysBeforeDue,
             Len(planIn.config.daysBeforeDue))
    \o AfterLoop(planIn.invoice, planIn.config.daysAfterDue,
                 Len(planIn.config.daysAfterDue))

\* the scheduled dates of a list of events, in the order of the list
ScheduledDates(list) == [k \in DOMAIN list |-> list[k].scheduledFor]

\* C11 (as claimed): the list a Planner call returns is the first
\* maxReminders events of the plan sorted ascending by scheduled date,
\* whatever the order of the configured offsets; for dueDate = today - 45,
\* afterDue = [1,7,14,30] and maxReminders = 1 the one event returned is
\* overdue_1.
C11_EarliestScheduledKept ==
  Planned =>
    /\ ScheduledDates(planOut)
         = SliceTo(SortAscending(ScheduledDates(PlannedCandidates)),
                   planIn.config.maxReminders)
    /\ (/\ planIn.config.daysAfterDue = <<1, 7, 14, 30>>
        /\ planIn.config.maxReminders = 1
        /\ PlannedDaysUntilDue = -45)
         => (Len(planOut) = 1 /\ planOut[1].type = "overdue_1")

\* C18: every after-due event a Planner call returns belongs to an offset a
\* with daysUntilDue < -a, has type overdue_30 (the final-warning tier) if
\* a >= 30, else overdue_14 if a >= 14, else overdue_7 if a >= 7, else
\* overdue_1, and is scheduled for dueDate + a days; when maxReminders does
\* not cut the list every such offset has its event.
C18_TierByOffset ==
  Planned =>
    /\ \A k \in DOMAIN planOut :
         planOut[k].kind = "after" =>
           LET a == planOut[k].days IN
           /\ a \in Range(planIn.config.daysAfterDue)
           /\ PlannedDaysUntilDue < -a
           /\ planOut[k].type
                = CASE a >= 30 -> "overdue_30"
                    [] a >= 14 /\ a < 30 -> "overdue_14"
                    [] a >= 7 /\ a < 14 -> "overdue_7"
                    [] a < 7 -> "overdue_1"
           /\ planOut[k].scheduledFor
                = (planIn.invoice.dueDay + a) * TicksPerDay
    /\ Len(planOut) < planIn.config.maxReminders =>
         \A a \in Range(planIn.config.daysAfterDue) :
           PlannedDaysUntilDue < -a =>
             \E k \in DOMAIN planOut :
               planOut[k].kind = "after" /\ planOut[k].days = a

\* C18 witness: a call for an invoice more than 30 days overdue that
\* returned one event of each of the four after-due types, the call made
\* late in the day.
C18_Witness ==
  /\ Planned
  /\ planIn.config.daysAfterDue = <<1, 7, 14, 30>>
  /\ planIn.config.maxReminders = 5
  /\ PlannedDaysUntilDue < -30
  /\ planIn.today % TicksPerDay # 0
  /\ Len(planOut) = 4
  /\ planOut[1].type = "overdue_1"
  /\ planOut[2].type = "overdue_7"
  /\ planOut[3].type = "overdue_14"
  /\ planOut[4].type = "overdue_30"
  /\ planOut[4].scheduledFor = (planIn.invoice.dueDay + 30) * TicksPerDay

\* C19 (as claimed): an after-due event for offset a is returned only when
\* daysUntilDue < -a; an invoice due today gets no after-due event under
\* any configuration, offset 0 included, and at most one due-soon event.
C19_StrictAfterDueThreshold ==
  Planned =>
    /\ \A k \in DOMAIN planOut :
         planOut[k].kind = "after" => PlannedDaysUntilDue < -planOut[k].days
    /\ PlannedDaysUntilDue = 0 =>
         /\ \A k \in DOMAIN planOut : planOut[k].kind # "after"
         /\ CountType(planOut, "due_soon") <= 1

\* C20 (as claimed): the template of a due-soon event follows the offset d
\* of the event, urgent when d <= 1 and standard otherwise, however many
\* days remain until the due date.
C20_TemplateByOffset ==
  Planned =>
    \A k \in DOMAIN planOut :
      planOut[k].type = "due_soon" =>
        planOut[k].template
          = IF planOut[k].days <= 1 THEN "payment_reminder_urgent"
                                    ELSE "payment_reminder"

\* C21 (as claimed): for every after-due event a Planner call returns, the
\* template sendReminder hands to sendEmail is 'final_warning' exactly when
\* the event is of the final-warning tier (overdue_30) and
\* 'invoice_overdue' otherwise, it is the template the Planner put on the
\* event, and it is a template the EmailService knows.
C21_AfterDueTemplate ==
  Planned =>
    \A k \in DOMAIN planOut :
      planOut[k].kind = "after" =>
        /\ templateMap(planOut[k].type)
             = IF planOut[k].type = "overdue_30" THEN "final_warning"
                                                 ELSE "invoice_overdue"
        /\ templateMap(planOut[k].type) = planOut[k].template
        /\ templateMap(planOut[k].type) \in EMAIL_TEMPLATES

\* C22 (as claimed): along every list a Planner call returns the scheduled
\* dates do not decrease; every due-soon event is scheduled on the day of
\* the due date or before and stands before every after-due event; the
\* after-due events stand in increasing order of their offsets, whatever
\* the order of the configured offsets.
C22_ScheduledDatesAscend ==
  Planned =>
    \A k1, k2 \in DOMAIN planOut :
      /\ planOut[k1].kind = "before" =>
           planOut[k1].scheduledFor \div TicksPerDay <= planIn.invoice.dueDay
      /\ k1 < k2 =>
           /\ planOut[k1].scheduledFor <= planOut[k2].scheduledFor
           /\ planOut[k2].kind = "before" => planOut[k1].kind = "before"
           /\ (planOut[k1].kind = "after" /\ planOut[k2].kind = "after")
                => planOut[k1].days < planOut[k2].days

\* a sequence without its repeated elements (the first of each is kept)
RECURSIVE Deduplicated(_)
Deduplicated(s) ==
  IF s = <<>> THEN <<>>
  ELSE LET front == Deduplicated(SubSeq(s, 1, Len(s) - 1))
       IN IF s[Len(s)] \in Range(front) THEN front
                                        ELSE Append(front, s[Len(s)])

\* C23 (as claimed): the list a Planner call returns is the list the same
\* call returns under the configuration with the repeated offsets removed.
C23_DuplicateOffsetsCollapse ==
  Planned =>
    planOut
      = SliceTo(BeforeLoop(planIn.invoice,
                           Deduplicated(planIn.config.daysBeforeDue),
                           Len(Deduplicated(planIn.config.daysBeforeDue)))
                  \o AfterLoop(planIn.invoice,
                               Deduplicated(planIn.config.daysAfterDue),
                               Len(Deduplicated(planIn.config.daysAfterDue))),
                planIn.config.maxReminders)

\* the configured after-due offsets of a call that qualify and fall into
\* the bucket of an after-due type
QualifyingOffsets(type) ==
  {a \in Range(planIn.config.daysAfterDue) :
     PlannedDaysUntilDue < -a /\ OverdueType(a) = type}

\* C24 (as claimed): when several qualifying after-due offsets fall into
\* the bucket of one type, the list (maxReminders not cutting it) has
\* exactly one event of that type, the one of the largest of these
\* offsets, scheduled for dueDate + that offset.
C24_LargestOffsetOfBucketKept ==
  (Planned /\ Len(planOut) < planIn.config.maxReminders) =>
    \A type \in {"overdue_1", "overdue_7", "overdue_14", "overdue_30"} :
      Cardinality(QualifyingOffsets(type)) >= 2 =>
        /\ CountType(planOut, type) = 1
        /\ \A k \in DOMAIN planOut :
             planOut[k].type = type =>
               /\ \A a \in QualifyingOffsets(type) : a <= planOut[k].days
               /\ planOut[k].scheduledFor
                    = (planIn.invoice.dueDay + planOut[k].days) * TicksPerDay

\* ---------------------------------- claims on the e-mail service and hook
\* C27: every emailService.sendEmail call made while the service is
\* disabled, whatever its payload and its caller, returns success = false
\* with an empty messageId and writes no e-mail out, and so does every call
\* with a template name the service does not have.
C27_DisabledServiceSendsNothing ==
  (/\ serviceLog.caller # "none"
   /\ (~serviceLog.enabled \/ serviceLog.template \notin EMAIL_TEMPLATES))
  => /\ serviceLog.success = FALSE
     /\ serviceLog.messageId = ""
     /\ serviceLog.logged = FALSE

\* C27 witness: the service was disabled after a delivered e-mail, and the
\* next call, with a template the service has, was refused.
C27_Witness ==
  /\ isEnabled = FALSE
  /\ emailCalls = 2
  /\ lastSentEmail = "success"
  /\ serviceLog.caller = "client"
  /\ serviceLog.template = "invoice_overdue"
  /\ serviceLog.enabled = FALSE
  /\ serviceLog.success = FALSE

\* the preferences allow a template: enabled, and the preference of the
\* template's category set
CategoryAllows(template) ==
  /\ preferences.enabled
  /\ CASE template \in {"invoice_created", "invoice_paid", "invoice_overdue",
                        "payment_reminder"} -> preferences.invoices
       [] template \in {"welcome", "case_update"} -> preferences.cases
       [] template = "new_message" -> preferences.messages
       [] template = "hearing_reminder" -> preferences.hearings
       [] template = "document_available" -> preferences.documents
       [] OTHER -> FALSE

\* a step in which the hook's sendEmail calls emailService.sendEmail if and
\* only if the preferences allow the template, and returns null without a
\* call otherwise
SendsOnlyIfPreferred ==
  /\ (emailCalls' # emailCalls /\ serviceLog'.caller = "sendEmail")
       => CategoryAllows(serviceLog'.template)
  /\ \A c \in MailCalls, template \in HookTemplates :
       HookSendEmail(c, template) =>
         IF CategoryAllows(template)
           THEN /\ emailCalls' = emailCalls + 1
                /\ serviceLog'.template = template
           ELSE /\ mailResult'[c] = "null"
                /\ emailCalls' = emailCalls
                /\ serviceLog' = serviceLog
                /\ isSending' = isSending

\* a step in which a call of sendEmail or sendTestEmail returns
Completes(c) ==
  \/ mailPc[c] # "idle" /\ mailPc'[c] = "idle"
  \/ /\ mailPc[c] = "idle"
     /\ mailPc'[c] = "idle"
     /\ \/ \E template \in HookTemplates : HookSendEmail(c, template)
        \/ HookSendTestEmail(c)

\* C28 (as claimed): the hook's sendEmail calls the service only when the
\* preferences allow the template and returns null without sending
\* otherwise; isSending is false after every step in which a sendEmail or
\* sendTestEmail call returns.
C28_IdleAfterEveryCall ==
  [][/\ SendsOnlyIfPreferred
     /\ \A c \in MailCalls : Completes(c) => isSending' = FALSE]_vars

\* C28 (amended): the hook's sendEmail calls the service only when the
\* preferences allow the template and returns null without sending
\* otherwise; isSending is false after every step in which a call that
\* reached the service returns, and whenever no call is in flight.
C28_IdleWhenNoCallInFlight ==
  [][/\ SendsOnlyIfPreferred
     /\ \A c \in MailCalls :
          (Completes(c) /\ (mailPc[c] # "idle" \/ emailCalls' # emailCalls))
            => isSending' = FALSE
     /\ (\A c \in MailCalls : mailPc'[c] = "idle") => isSending' = FALSE]_vars

\* C28 witness: one call was refused by the preferences and returned null,
\* another went through the service and returned; nothing is in flight.
C28_Witness ==
  /\ \A c \in MailCalls : mailPc[c] = "idle"
  /\ mailResult["m1"] = "null"
  /\ mailResult["m2"] = "response"
  /\ preferences.enabled
  /\ ~preferences.invoices
  /\ emailCalls = 1
  /\ serviceLog.caller = "sendEmail"
  /\ lastSentEmail = "success"
  /\ isSending = FALSE

\* ------------------------------------------------ claims on usePayments
\* C29: a processPayment call with an amount <= 0 or > 999999.99 ends at
\* once in 'error' with an error set and without a call of the service;
\* any other call sets 'processing' and goes to the service; when a call
\* returns, paymentState is 'success' if its result has success = true and
\* 'error' with an error set otherwise; paymentState is not 'processing'
\* once no call is in flight; resetState gives 'idle' with lastPayment and
\* error null.
C29_PaymentStateMachine ==
  [][/\ \A c \in PayCalls, amount \in Amounts, mode \in Modes :
          ProcessPayment(c, amount, mode) =>
            IF amount <= 0 \/ amount > 99999999
              THEN /\ paymentState' = "error"
                   /\ paymentError' # "null"
                   /\ payCalls' = payCalls
                   /\ payPc'[c] = "idle"
                   /\ payResult'[c] = "failed"
              ELSE /\ paymentState' = "processing"
                   /\ payCalls' = payCalls + 1
                   /\ payPc'[c] # "idle"
     /\ \A c \in PayCalls :
          (payPc[c] # "idle" /\ payPc'[c] = "idle") =>
            /\ payResult'[c] \in {"success", "failed"}
            /\ payResult'[c] = "success" <=> paymentState' = "success"
            /\ payResult'[c] = "failed" =>
                 (paymentState' = "error" /\ paymentError' # "null")
     /\ (\A c \in PayCalls : payPc'[c] = "idle")
          => paymentState' # "processing"
     /\ ResetState =>
          (paymentState' = "idle" /\ lastPayment' = "null"
             /\ paymentError' = "null")]_vars

\* C29 witness: one call has returned success from the service, then a
\* call with an amount over the limit has ended in 'error' without
\* reaching the service.
C29_Witness ==
  /\ \A c \in PayCalls : payPc[c] = "idle"
  /\ payResult["p1"] = "success"
  /\ payResult["p2"] = "failed"
  /\ payCalls = 1
  /\ paymentState = "error"
  /\ paymentError = "El importe excede el limite permitido"
  /\ lastPayment = "null"

\* --------------------------------------- claims on usePushNotifications
\* the callbacks of the hook
PushCallbacks == {"refreshStatus", "requestPermission", "unsubscribe"}

\* this step starts a call of the callback op
CallOf(op) ==
  CASE op = "refreshStatus" -> RefreshStatus
    [] op = "requestPermission" -> RequestPermission
    [] op = "unsubscribe" -> Unsubscribe

\* this step is the one in which a call of op returns to its caller
Returned(op) ==
  \/ pushPc[op] \notin {"idle", "start"} /\ pushPc'[op] = "idle"
  \/ CallOf(op) /\ ~isSupported

\* isLoading is false when a call of a callback has returned
IdleAfterCallback ==
  \A op \in PushCallbacks : Returned(op) => isLoading' = FALSE

\* unsubscribe returning true leaves isSubscribed false, subscription null
ClearedByUnsubscribe ==
  (Returned("unsubscribe") /\ pushResult'["unsubscribe"] = "true")
    => (~isSubscribed' /\ subscription' = "null")

\* isSubscribed turns true in the step requestPermission returns true
SetByRequestPermission ==
  Returned("requestPermission") /\ pushResult'["requestPermission"] = "true"

\* isSubscribed turns true in the step the mount effect or refreshStatus
\* has found a subscription the PushManager holds
SetByExistingSubscription ==
  \E op \in {"mount", "refreshStatus"} :
    /\ pushPc[op] = "isSubscribed"
    /\ pushPc'[op] = "idle"
    /\ registration'
    /\ pushSubscribed

\* without support, a callback leaves isSubscribed and subscription alone
UnsupportedChangesNothing ==
  \A op \in PushCallbacks :
    (CallOf(op) /\ ~isSupported) => UNCHANGED <<isSubscribed, subscription>>

\* C30 as stated: isLoading is false after any completed requestPermission,
\* unsubscribe or refreshStatus call; isSubscribed becomes true only when
\* requestPermission returned true, and is false with a null subscription
\* after unsubscribe returned true; without support each of the three
\* returns false and changes neither isSubscribed nor subscription.
C30_SubscribedOnlyByRequest ==
  [][/\ IdleAfterCallback
     /\ (~isSubscribed /\ isSubscribed') => SetByRequestPermission
     /\ ClearedByUnsubscribe
     /\ UnsupportedChangesNothing
     /\ \A op \in PushCallbacks :
          (CallOf(op) /\ ~isSupported) => pushResult'[op] = "false"]_vars

\* C30 amended: as C30, but isSubscribed also becomes true when the mount
\* effect or refreshStatus finds a subscription the browser already holds,
\* and without support refreshStatus returns undefined where
\* requestPermission and unsubscribe return false.
C30_SubscribedByRequestOrExisting ==
  [][/\ IdleAfterCallback
     /\ (~isSubscribed /\ isSubscribed')
          => (SetByRequestPermission \/ SetByExistingSubscription)
     /\ ClearedByUnsubscribe
     /\ UnsupportedChangesNothing
     /\ \A op \in PushCallbacks :
          (CallOf(op) /\ ~isSupported) =>
            pushResult'[op] = IF op = "refreshStatus" THEN "undefined"
                                                      ELSE "false"]_vars

\* C30 witness: with support, requestPermission has returned true,
\* refreshStatus has run and unsubscribe has returned true.
C30_Witness ==
  /\ isSupported
  /\ \A op \in PushOps : pushPc[op] = "idle"
  /\ pushResult["requestPermission"] = "true"
  /\ pushResult["refreshStatus"] = "undefined"
  /\ pushResult["unsubscribe"] = "true"
  /\ ~isSubscribed
  /\ subscription = "null"
  /\ ~isLoading

\* ----------------------------------------------- claims on the processor
\* C1 (as claimed): no (invoice, tier) key is marked sent more than once,
\* and sendEmail succeeds at most once for it, over any number of cycles.
C1_AtMostOneSent ==
  \A k \in Keys : marked[k] <= 1 /\ okCalls[k] <= 1

\* C2: a cycle that ran to its end attempted (called sendReminder for)
\* every key whose dispatch failed in an earlier cycle and that is planned
\* and due for an invoice of its batch.
C2_RetryAfterFailure ==
  \A p \in Procs :
    (pc[p] = "done" /\ steady[p]) =>
      \A i \in DOMAIN batch[p] :
        \A r \in Range(calculateReminders(batch[p][i])) :
          (now >= r.scheduledFor /\ KeyOf(r) \in failedBefore[p])
            => KeyOf(r) \in attempted[p]

\* C2 witness: a cycle ends having attempted again, this time with
\* success, a key whose dispatch failed in an earlier cycle.
C2_Witness ==
  /\ pc[Driver] = "done"
  /\ steady[Driver]
  /\ \E k \in failedBefore[Driver] \cap attempted[Driver] :
       okCalls[k] = 1 /\ failCalls[k] = 1

\* C3 (as claimed): when sendEmail reported a failure for an event, the
\* cycle counts it in `failed`, not in `sent`, and its status is not 'sent'.
C3_FailureCountedAsFailed ==
  [][\A p \in Procs :
       (pc[p] = "awaitSend" /\ emailResult[p] = "fail" /\ pc'[p] = "loop")
         => /\ failed'[p] = failed[p] + 1
            /\ sent'[p] = sent[p]
            /\ reminders'[p][pos[p]].status # "sent"]_vars

\* C4 (as claimed): a reminder with status 'sent' had a sendEmail call that
\* returned success, and `sent` counts no more than such calls.
C4_SentOnlyIfConfirmed ==
  \A p \in Procs :
    /\ \A k \in DOMAIN reminders[p] :
         reminders[p][k].status = "sent" => k \in acked[p]
    /\ sent[p] <= ackCount[p]

\* C12: sendReminder is called only for a reminder whose scheduled date is
\* not after the clock; the step a cycle takes at a reminder scheduled
\* later passes over it: no sendEmail call, no status set, no counter
\* changed.
C12_OnlyDueDispatched ==
  [][\A p \in Procs :
       /\ (pc[p] = "loop" /\ pc'[p] \in {"awaitEmail", "awaitSend"})
            => now >= Current(p).scheduledFor
       /\ (/\ pc[p] = "loop"
           /\ pos[p] <= Len(reminders[p])
           /\ now < Current(p).scheduledFor)
            => /\ pc'[p] = "loop"
               /\ pos'[p] = pos[p] + 1
               /\ sent' = sent
               /\ failed' = failed
               /\ reminders' = reminders
               /\ okCalls' = okCalls
               /\ failCalls' = failCalls
               /\ marked' = marked
               /\ attempted' = attempted]_vars

\* C12 witness: a cycle has sent the reminder of an invoice that was due
\* and passed over the next one, scheduled later and still pending.
C12_Witness ==
  /\ pc[Driver] = "loop"
  /\ Len(reminders[Driver]) = 2
  /\ pos[Driver] = 3
  /\ reminders[Driver][1].status = "sent"
  /\ reminders[Driver][2].status = "pending"
  /\ reminders[Driver][2].scheduledFor > now
  /\ sent[Driver] = 1
  /\ failed[Driver] = 0

\* C13 (as claimed): at a due reminder whose key was marked sent before, a
\* cycle calls no sendEmail and counts it neither as sent nor as failed.
C13_SentKeySkipped ==
  [][\A p \in Procs :
       (/\ pc[p] = "loop"
        /\ pos[p] <= Len(reminders[p])
        /\ now >= Current(p).scheduledFor
        /\ marked[KeyOf(Current(p))] > 0)
         => /\ pc'[p] = "loop"
            /\ okCalls' = okCalls
            /\ failCalls' = failCalls
            /\ sent' = sent
            /\ failed' = failed]_vars

\* an invoice is in the batch of a cycle in flight
InBatch(invoiceId) ==
  \E p \in Procs :
    \E i \in DOMAIN batch[p] : batch[p][i].invoiceId = invoiceId

\* C14: for an invoice that is in no batch no step calls sendEmail or sets
\* a status for any of its keys, and no cycle plans a reminder for it,
\* whatever was recorded for it before.
C14_AbsentInvoiceUntouched ==
  [][\A k \in Keys :
       ~InBatch(k[1]) =>
         /\ okCalls'[k] = okCalls[k]
         /\ failCalls'[k] = failCalls[k]
         /\ marked'[k] = marked[k]
         /\ \A p \in Procs :
              /\ k \notin attempted'[p]
              /\ \A j \in DOMAIN reminders'[p] :
                   reminders'[p][j].invoiceId # k[1]]_vars

\* C14 witness: the second cycle ends, with a reminder sent for the one
\* invoice of its batch, while the key of another invoice keeps the failed
\* dispatch of the first cycle.
C14_Witness ==
  /\ cycles = 2
  /\ pc[Driver] = "done"
  /\ batch[Driver] = <<InvoiceA>>
  /\ sent[Driver] = 1
  /\ \E type \in ReminderTypes :
       /\ failCalls[<<"B", type>>] = 1
       /\ okCalls[<<"B", type>>] = 0
       /\ marked[<<"B", type>>] = 1

\* C15: no cycle is cut short: a call never rejects, it ends only with
\* every invoice of its batch gone through, and (the clock and the
\* configuration unchanged) with sendReminder called for every planned and
\* due reminder of every invoice of the batch, whether another invoice has
\* a due date that does not parse or another dispatch failed.
C15_ErrorsIsolated ==
  \A p \in Procs :
    /\ pc[p] \in {"idle", "loop", "awaitEmail", "awaitSend", "done"}
    /\ pc[p] = "done" =>
         /\ idx[p] = Len(batch[p])
         /\ pos[p] > Len(reminders[p])
    /\ (pc[p] = "done" /\ steady[p]) =>
         \A i \in DOMAIN batch[p] :
           \A r \in Range(calculateReminders(batch[p][i])) :
             now >= r.scheduledFor => KeyOf(r) \in attempted[p]

\* C15 witness: a cycle whose batch starts with an invoice whose due date
\* does not parse ends having dispatched, with a failed sendEmail, the
\* reminder of the invoice after it.
C15_Witness ==
  /\ pc[Driver] = "done"
  /\ steady[Driver]
  /\ batch[Driver] = <<MalformedInvoice, InvoiceB>>
  /\ sent[Driver] + failed[Driver] = 1
  /\ \E k \in attempted[Driver] : failCalls[k] = 1 /\ okCalls[k] = 0

\* C16 (as claimed): when two cycles in flight have both called
\* sendReminder for a key, sendEmail succeeded at most once for it and its
\* status was set to 'sent' at most once.
C16_OneSendUnderConcurrency ==
  \A k \in attempted["c1"] \cap attempted["c2"] :
    okCalls[k] <= 1 /\ marked[k] <= 1

\* C17 (as claimed): once sendReminder has returned (the configuration
\* unchanged meanwhile) sendEmail was called if and only if enableEmail is
\* set, and a push notification was sent if and only if enablePush is set.
C17_ChannelsFollowConfig ==
  \A p \in Procs :
    (pc[p] = "awaitSend" /\ steady[p]) =>
      /\ (emailResult[p] # "none") <=> config.enableEmail
      /\ (pushCalls > 0) <=> config.enablePush

\* number of reminders calculateReminders returns for the first n invoices
\* of the batch of a cycle that are scheduled for now or earlier
RECURSIVE DueCount(_, _)
DueCount(p, n) ==
  IF n = 0 THEN 0
  ELSE LET list == calculateReminders(batch[p][n])
       IN DueCount(p, n - 1)
            + Cardinality({k \in DOMAIN list : now >= list[k].scheduledFor})

\* C25: when a cycle ends (the clock and the configuration unchanged since
\* it started) sent + failed is the number of reminders calculateReminders
\* returns over its batch that are scheduled for now or earlier; `failed`
\* is never incremented, sendReminder returning true whenever it returns.
C25_EveryDueReminderCountedOnce ==
  \A p \in Procs :
    /\ failed[p] = 0
    /\ (pc[p] = "done" /\ steady[p]) =>
         sent[p] + failed[p] = DueCount(p, Len(batch[p]))

\* C25 witness: a cycle over two invoices ends having counted the one due
\* reminder, its sendEmail failed, and having passed over a reminder
\* scheduled later.
C25_Witness ==
  /\ pc[Driver] = "done"
  /\ steady[Driver]
  /\ Len(batch[Driver]) = 2
  /\ sent[Driver] = 1
  /\ \E k \in attempted[Driver] : failCalls[k] > 0
  /\ \E k \in DOMAIN reminders[Driver] :
       reminders[Driver][k].scheduledFor > now

\* C26: a step of a cycle (calculateReminders, sendReminder and the loop
\* of processPendingReminders) changes neither the configuration nor the
\* stored reminders map, and every list calculateReminders hands to a
\* cycle is new: all its reminders pending and without sentAt, whatever
\* was marked sent before.
C26_ServiceStateUnchanged ==
  [][/\ (pc' # pc \/ reminders' # reminders \/ pos' # pos)
          => (config' = config /\ remindersMap' = remindersMap)
     /\ \A p \in Procs :
          idx'[p] # idx[p] =>
            \A k \in DOMAIN reminders'[p] :
              /\ reminders'[p][k].status = "pending"
              /\ reminders'[p][k].sentAt = NoDate]_vars

\* C26 witness: the second cycle has planned, pending, the reminder whose
\* key the first cycle marked sent, with the configuration as it was.
C26_Witness ==
  /\ cycles = 2
  /\ pc[Driver] = "loop"
  /\ pos[Driver] = 1
  /\ Len(reminders[Driver]) >= 1
  /\ reminders[Driver][1].status = "pending"
  /\ marked[KeyOf(reminders[Driver][1])] = 1
  /\ config = DEFAULT_CONFIG
  /\ remindersMap = {}

====
